---------------------------- MODULE Spec2Model ----------------------------
(***************************************************************************)
(* A model of filebulk: the sqlite-backed Entry index (index.py), the      *)
(* include/exclude Filter, and the commands built on it (__main__.py):     *)
(* the build scan, duplicates, duplicate_entries, eval_dir_dups and        *)
(* eval_missing.                                                           *)
(*                                                                         *)
(* Strings are sequences of one-character strings, so that os.path.split,  *)
(* str.lower, str.replace, fnmatch and SQL LIKE are computed character by   *)
(* character.  A file's content is a natural number c and its md5          *)
(* hexdigest is c written with DigestLen hex digits: md5 is taken to be     *)
(* injective.                                                              *)
(***************************************************************************)
EXTENDS Integers, Sequences, FiniteSets, TLC

VARIABLES
    fs,         \* build: the scanned tree, node -> [kind, readable]
    filter,     \* the Filter: [includes, excludes], lists of glob patterns
    stack,      \* build: one frame per active index_dir call, the entries not yet visited
    pc,         \* position of the running command
    adds,       \* build: number of Index.add calls made by the session
    committed,  \* the entry table as stored in the index file (what a new connection sees)
    rows,       \* the entry table as seen by the open connection (committed + uncommitted)
    schema,     \* whether the entry table and entry_hash_index exist in the index file
    left,       \* eval_missing: the entry table of the left index
    path,       \* Filter.test: the path under test
    op,         \* the last operation performed
    result      \* what the last operation returned

vars == <<fs, filter, stack, pc, adds, committed, rows, schema, left, path, op, result>>

(***************************************************************************)
(* Bounds of the model.                                                    *)
(***************************************************************************)
MaxEntries == 3     \* number of Index.add calls in the store specification
MaxPatLen == 2      \* length of a glob pattern in the filter specification
MaxPathLen == 2     \* length of a path in the filter specification
MaxSmall == 2       \* number of hand-picked entries in front of a bulk store
DigestLen == 4      \* number of hex digits of a digest

(***************************************************************************)
(* Characters and strings.                                                 *)
(***************************************************************************)
\* str.lower on the characters the model uses
Lower(c) ==
    CASE c = "A" -> "a"
      [] c = "T" -> "t"
      [] OTHER -> c

RECURSIVE LowerStr(_)
LowerStr(s) == IF s = <<>> THEN <<>> ELSE <<Lower(Head(s))>> \o LowerStr(Tail(s))

\* str.replace(old, new) for a one-character old
RECURSIVE Replace(_, _, _)
Replace(s, old, new) ==
    IF s = <<>> THEN <<>>
    ELSE (IF Head(s) = old THEN new ELSE <<Head(s)>>) \o Replace(Tail(s), old, new)

\* code point of the characters the model uses
CharCode(c) ==
    CASE c = "%" -> 37 [] c = "*" -> 42 [] c = "." -> 46 [] c = "/" -> 47
      [] c = "0" -> 48 [] c = "1" -> 49 [] c = "2" -> 50 [] c = "3" -> 51
      [] c = "4" -> 52 [] c = "5" -> 53 [] c = "6" -> 54 [] c = "7" -> 55
      [] c = "8" -> 56 [] c = "9" -> 57
      [] c = "?" -> 63 [] c = "A" -> 65 [] c = "T" -> 84 [] c = "_" -> 95
      [] c = "a" -> 97 [] c = "b" -> 98 [] c = "c" -> 99 [] c = "d" -> 100
      [] c = "e" -> 101 [] c = "f" -> 102
      [] c = "h" -> 104 [] c = "m" -> 109 [] c = "r" -> 114 [] c = "s" -> 115
      [] c = "t" -> 116 [] c = "u" -> 117 [] c = "x" -> 120 [] c = "y" -> 121

\* <= on strings: Python's str comparison, SQLite's BINARY collation
RECURSIVE StrLeq(_, _)
StrLeq(a, b) ==
    IF a = <<>> THEN TRUE
    ELSE IF b = <<>> THEN FALSE
    ELSE IF Head(a) # Head(b) THEN CharCode(Head(a)) < CharCode(Head(b))
    ELSE StrLeq(Tail(a), Tail(b))

HexDigits ==
    <<"0", "1", "2", "3", "4", "5", "6", "7", "8", "9", "a", "b", "c", "d", "e", "f">>

\* n written with w hex digits
RECURSIVE Hex(_, _)
Hex(n, w) == IF w = 0 THEN <<>> ELSE Append(Hex(n \div 16, w - 1), HexDigits[(n % 16) + 1])

\* Md5Sink.hexdigest of a file whose content is c
Md5(c) == Hex(c, DigestLen)

\* str.rfind("/") + 1: the length of the prefix that ends at the last slash
RECURSIVE RFindSlash(_, _)
RFindSlash(s, i) ==
    IF i = 0 THEN 0
    ELSE IF s[i] = "/" THEN i
    ELSE RFindSlash(s, i - 1)

\* str.rstrip("/")
RECURSIVE RStripSlash(_)
RStripSlash(s) ==
    IF s # <<>> /\ s[Len(s)] = "/" THEN RStripSlash(SubSeq(s, 1, Len(s) - 1)) ELSE s

\* posixpath.split: <<head, tail>>
PathSplit(p) ==
    LET i == RFindSlash(p, Len(p))
        head == SubSeq(p, 1, i)
        tail == SubSeq(p, i + 1, Len(p))
    IN  IF head # <<>> /\ RStripSlash(head) # <<>>
        THEN <<RStripSlash(head), tail>>
        ELSE <<head, tail>>

Dirname(p) == PathSplit(p)[1]
Basename(p) == PathSplit(p)[2]

(***************************************************************************)
(* Filter (index.py): fnmatch on the Python side, LIKE on the SQL side.    *)
(***************************************************************************)
\* fnmatch.translate(pat) compiled and matched with re.match: "*" is any run
\* of characters, "?" any one character, the regular expression is anchored
\* at both ends and case sensitive.  Patterns hold no "[".
RECURSIVE GlobMatch(_, _)
GlobMatch(pat, s) ==
    IF pat = <<>> THEN s = <<>>
    ELSE IF Head(pat) = "*"
         THEN GlobMatch(Tail(pat), s) \/ (s # <<>> /\ GlobMatch(pat, Tail(s)))
    ELSE /\ s # <<>>
         /\ (Head(pat) = "?" \/ Head(pat) = Head(s))
         /\ GlobMatch(Tail(pat), Tail(s))

\* re.compile("|".join(translate(p) for p in pats)).match(s)
AnyGlob(pats, s) == \E i \in DOMAIN pats : GlobMatch(pats[i], s)

WhitecardToLike(wc) ==
    Replace(Replace(Replace(Replace(wc, "%", <<"%", "%">>), "_", <<"_", "_">>),
                    "*", <<"%">>), "?", <<"_">>)

\* SQLite's LIKE without ESCAPE: "%" is any run of characters, "_" any one
\* character, and ASCII letters compare without regard to case.
RECURSIVE LikeMatch(_, _)
LikeMatch(pat, s) ==
    IF pat = <<>> THEN s = <<>>
    ELSE IF Head(pat) = "%"
         THEN LikeMatch(Tail(pat), s) \/ (s # <<>> /\ LikeMatch(pat, Tail(s)))
    ELSE /\ s # <<>>
         /\ (Head(pat) = "_" \/ Lower(Head(pat)) = Lower(Head(s)))
         /\ LikeMatch(Tail(pat), Tail(s))

\* Filter.__init__: empty (or None) lists compile to no matcher
NewFilter(includes, excludes) == [includes |-> includes, excludes |-> excludes]

\* a variant of FilterTest in which a matching include wins over the excludes
FilterTestIncludeFirst(f, p) ==
    IF f.includes # <<>> /\ AnyGlob(f.includes, p)
    THEN TRUE
    ELSE f.includes = <<>> /\ ~(f.excludes # <<>> /\ AnyGlob(f.excludes, p))

FilterTest(f, p) ==
    IF f.excludes # <<>> /\ AnyGlob(f.excludes, p)
    THEN FALSE
    ELSE f.includes = <<>> \/ AnyGlob(f.includes, p)

\* Filter.sql, evaluated on the filePath column of one row
FilterSql(f, p) ==
    /\ f.includes # <<>> =>
           \E i \in DOMAIN f.includes : LikeMatch(WhitecardToLike(f.includes[i]), p)
    /\ f.excludes # <<>> =>
           \A i \in DOMAIN f.excludes : ~LikeMatch(WhitecardToLike(f.excludes[i]), p)


(***************************************************************************)
(* Entry and the entry table (index.py).                                   *)
(***************************************************************************)
Entry(filePath, fileSize, md5Hash) ==
    [filePath |-> filePath, fileSize |-> fileSize, md5Hash |-> md5Hash]

\* Index.add: INSERT INTO entry, no uniqueness check
IndexAdd(t, e) == Append(t, e)

\* Index.entries: SELECT filepath, filesize, md5hash FROM entry, in rowid order
IndexEntries(t) == t

\* insert item x into the sorted sequence s behind every item whose key is <= x.key
RECURSIVE InsertSorted(_, _)
InsertSorted(s, x) ==
    IF s = <<>> THEN <<x>>
    ELSE IF StrLeq(s[Len(s)].key, x.key) THEN Append(s, x)
    ELSE Append(InsertSorted(SubSeq(s, 1, Len(s) - 1), x), s[Len(s)])

\* ORDER BY key / sorted(items, key=...): a stable sort of [key, item] records
RECURSIVE SortByKey(_)
SortByKey(s) ==
    IF s = <<>> THEN <<>>
    ELSE InsertSorted(SortByKey(SubSeq(s, 1, Len(s) - 1)), s[Len(s)])

\* length of the run of equal keys that starts the non-empty sequence s
RECURSIVE RunLen(_)
RunLen(s) ==
    IF Len(s) >= 2 /\ s[2].key = s[1].key THEN 1 + RunLen(Tail(s)) ELSE 1

\* itertools.groupby(s, key): one [key, values] group per run of equal keys
RECURSIVE GroupBy(_)
GroupBy(s) ==
    IF s = <<>> THEN <<>>
    ELSE LET n == RunLen(s)
         IN  <<[key |-> s[1].key, values |-> [i \in 1..n |-> s[i].item]]>>
                 \o GroupBy(SubSeq(s, n + 1, Len(s)))

\* {key: values for key, values in groups}: a later group replaces an earlier
\* one with the same key
DictOf(groups) ==
    [k \in {groups[i].key : i \in DOMAIN groups} |->
        LET last == CHOOSE i \in DOMAIN groups :
                        /\ groups[i].key = k
                        /\ \A j \in DOMAIN groups : groups[j].key = k => j <= i
        IN  groups[last].values]

\* a variant of DupHashes whose HAVING clause keeps every digest
DupHashesAll(t) == {t[i].md5Hash : i \in DOMAIN t}

\* SELECT md5hash FROM entry GROUP BY md5hash HAVING count(filepath) > 1
DupHashes(t) ==
    {h \in {t[i].md5Hash : i \in DOMAIN t} :
        Cardinality({i \in DOMAIN t : t[i].md5Hash = h}) > 1}

\* ... FROM entry WHERE md5hash IN (...) ORDER BY md5hash; rows of one digest
\* come in rowid order
WhereHashIn(t, S) == SelectSeq(t, LAMBDA e : e.md5Hash \in S)

DupRows(t) ==
    LET sel == WhereHashIn(t, DupHashes(t))
    IN  SortByKey([i \in DOMAIN sel |-> [key |-> sel[i].md5Hash, item |-> sel[i]]])

\* Index.duplicates: rows are (md5hash, filepath), grouped by column 0
IndexDuplicates(t) ==
    LET rs == DupRows(t)
        byFirst == [i \in DOMAIN rs |-> [key |-> rs[i].item.md5Hash, item |-> rs[i].item]]
        groups == GroupBy(byFirst)
        d == DictOf(groups)
    IN  [k \in DOMAIN d |-> [i \in DOMAIN d[k] |-> d[k][i].filePath]]

\* Index.duplicate_entries: rows are (filepath, filesize, md5hash), grouped by
\* column 0
IndexDuplicateEntries(t) ==
    LET rs == DupRows(t)
        byFirst == [i \in DOMAIN rs |-> [key |-> rs[i].item.filePath, item |-> rs[i].item]]
        groups == GroupBy(byFirst)
    IN  DictOf(groups)

(***************************************************************************)
(* Index.unique_hashes and Index.find_filepaths_for_hash (index.py).       *)
(***************************************************************************)
\* SELECT DISTINCT md5hash FROM entry WHERE {filter.sql}
UniqueHashes(t, f) == {t[i].md5Hash : i \in {j \in DOMAIN t : FilterSql(f, t[j].filePath)}}

\* SELECT filepath FROM entry WHERE md5hash = ?
FindFilepathsForHash(t, h) ==
    LET sel == SelectSeq(t, LAMBDA e : e.md5Hash = h)
    IN  [i \in DOMAIN sel |-> sel[i].filePath]

(***************************************************************************)
(* eval_dir_dups (__main__.py).                                            *)
(***************************************************************************)
THUMBS == <<"t", "h", "u", "m", "b", "s", ".", "d", "b">>

\* path_split_all: the ancestor directories of a relative path, nearest first
RECURSIVE PathSplitAll(_)
PathSplitAll(p) ==
    LET head == PathSplit(p)[1]
    IN  IF head = <<>> THEN <<>> ELSE <<head>> \o PathSplitAll(head)

\* hashlib.md5().update(...)...hexdigest(): the digest of the characters fed,
\* in the order they were fed; md5 is taken to be injective
HexDigest(fed) == fed

\* d[dir].update(h) on the defaultdict d, kept as a list of [dir, fed] in
\* insertion order
DictUpdate(d, dir, h) ==
    IF \E i \in DOMAIN d : d[i].dir = dir
    THEN [i \in DOMAIN d |-> IF d[i].dir = dir
                             THEN [d[i] EXCEPT !.fed = @ \o h]
                             ELSE d[i]]
    ELSE Append(d, [dir |-> dir, fed |-> h])

RECURSIVE FeedDirs(_, _, _)
FeedDirs(d, dirs, h) ==
    IF dirs = <<>> THEN d ELSE FeedDirs(DictUpdate(d, Head(dirs), h), Tail(dirs), h)

\* the first loop of eval_dir_dups over index.entries()
RECURSIVE FeedEntries(_, _)
FeedEntries(d, es) ==
    IF es = <<>> THEN d
    ELSE LET e == Head(es)
         IN  FeedEntries(
                 IF LowerStr(Basename(e.filePath)) # THUMBS
                 THEN FeedDirs(d, PathSplitAll(e.filePath), e.md5Hash)
                 ELSE d,
                 Tail(es))

\* {path: hash.hexdigest()}: a list of [dir, hash] in insertion order
DirHashes(t) ==
    LET d == FeedEntries(<<>>, IndexEntries(t))
    IN  [i \in DOMAIN d |-> [dir |-> d[i].dir, hash |-> HexDigest(d[i].fed)]]

\* Python's None, a value that is no digest
None == <<"None">>

\* dirs.get(p): the hash of p, or None
DictGet(dirs, p) ==
    IF \E i \in DOMAIN dirs : dirs[i].dir = p
    THEN (CHOOSE x \in {dirs[i] : i \in DOMAIN dirs} : x.dir = p).hash
    ELSE None

\* a variant of HasParentWithSameHash that never finds the parent's hash equal
HasParentNever(p, hash, dirs) == FALSE

HasParentWithSameHash(p, hash, dirs) ==
    LET parent == Dirname(p)
    IN  IF parent # <<>> THEN DictGet(dirs, parent) = hash ELSE FALSE

\* "filter single sub-folders"
PruneDirs(d) == SelectSeq(d, LAMBDA x : ~HasParentWithSameHash(x.dir, x.hash, d))

\* a variant of DirGroups that keeps the groups of one path too
DirGroupsAll(d) ==
    LET sorted == SortByKey([i \in DOMAIN d |-> [key |-> d[i].hash, item |-> d[i].dir]])
    IN  DictOf(GroupBy(sorted))

\* "Find duplicates": sort the items by hash, group them by hash, keep the
\* groups with more than one path
DirGroups(d) ==
    LET sorted == SortByKey([i \in DOMAIN d |-> [key |-> d[i].hash, item |-> d[i].dir]])
        groups == GroupBy(sorted)
    IN  DictOf(SelectSeq(groups, LAMBDA g : Len(g.values) > 1))

EvalDirDups(t) == DirGroups(PruneDirs(DirHashes(t)))

(***************************************************************************)
(* eval_missing (__main__.py).                                             *)
(***************************************************************************)
Threshold == 5000

\* a variant of TooMany that already refuses Threshold hashes
TooManyAtThreshold(missing) == Cardinality(missing) >= Threshold

\* len(missing) > 5000
TooMany(missing) == Cardinality(missing) > Threshold

\* a variant of EvalMissing that subtracts the right hashes from the left ones
EvalMissingSwapped(l, r, f) ==
    LET left_hashes == UniqueHashes(l, f)
        right_hashes == UniqueHashes(r, f)
        missing == left_hashes \ right_hashes
    IN  [error |-> "", lookups |-> Cardinality(missing),
         value |-> [h \in missing |-> FindFilepathsForHash(r, h)]]

\* the result is [error, lookups, value]: lookups counts the calls of
\* find_filepaths_for_hash the evaluation made
EvalMissing(l, r, f) ==
    LET left_hashes == UniqueHashes(l, f)
        right_hashes == UniqueHashes(r, f)
        missing == right_hashes \ left_hashes
    IN  IF TooMany(missing)
        THEN [error |-> "RuntimeError", lookups |-> 0, value |-> <<>>]
        ELSE [error |-> "", lookups |-> Cardinality(missing),
              value |-> [h \in missing |-> FindFilepathsForHash(r, h)]]

(***************************************************************************)
(* The store specification: any sequence of Index.add calls on one open    *)
(* connection, with the queries run at any point.                          *)
(***************************************************************************)
P_abx == <<"a", "/", "b", "/", "x">>
P_ay == <<"a", "/", "y">>
P_cx == <<"c", "/", "x">>
P_cdx == <<"c", "/", "d", "/", "x">>
P_x == <<"x">>
P_aThumbs == <<"a", "/", "T", "h", "u", "m", "b", "s", ".", "d", "b">>

StorePaths == {P_abx, P_ay, P_cx, P_cdx, P_x, P_aThumbs}
StoreContents == {1, 2}
StoreHashes == {Md5(c) : c \in StoreContents}

\* os.path.getsize of a file whose content is c
SizeOf(c) == 10 * c

EntryPool == {Entry(p, SizeOf(c), Md5(c)) : p \in StorePaths, c \in StoreContents}

Idle ==
    /\ fs = <<>>
    /\ filter = NewFilter(<<>>, <<>>)
    /\ stack = <<>>
    /\ pc = "idle"
    /\ adds = 0
    /\ left = <<>>
    /\ path = <<>>

InitStore ==
    /\ Idle
    /\ committed = <<>>
    /\ rows = <<>>
    /\ schema = TRUE
    /\ op = "new"
    /\ result = <<>>

Add(e) ==
    /\ Len(rows) < MaxEntries
    /\ rows' = IndexAdd(rows, e)
    /\ op' = "add"
    /\ result' = <<>>
    /\ UNCHANGED <<fs, filter, stack, pc, adds, committed, schema, left, path>>

Duplicates ==
    /\ op' = "duplicates"
    /\ result' = IndexDuplicates(rows)
    /\ UNCHANGED <<fs, filter, stack, pc, adds, committed, rows, schema, left, path>>

DuplicateEntries ==
    /\ op' = "duplicate_entries"
    /\ result' = IndexDuplicateEntries(rows)
    /\ UNCHANGED <<fs, filter, stack, pc, adds, committed, rows, schema, left, path>>

DirDups ==
    /\ op' = "dirdups"
    /\ result' = EvalDirDups(rows)
    /\ UNCHANGED <<fs, filter, stack, pc, adds, committed, rows, schema, left, path>>

NextStore ==
    \/ \E e \in EntryPool : Add(e)
    \/ Duplicates
    \/ DuplicateEntries
    \/ DirDups

SpecStore == InitStore /\ [][NextStore]_vars

\* number of rows of t that satisfy P
Count(t, P(_)) == Cardinality({i \in DOMAIN t : P(t[i])})

\* number of elements of the list s equal to x
Occurrences(s, x) == Cardinality({i \in DOMAIN s : s[i] = x})

(***************************************************************************)
(* The filter specification: one Filter, compiled from include and exclude *)
(* lists, applied to one path by Filter.test and to a two-row table by     *)
(* Index.unique_hashes.                                                    *)
(***************************************************************************)
PatChars == {"a", "*", "?", "_"}
PathChars == {"a", "A", "_"}

\* the strings over chars of length lo..hi
StringsOver(chars, lo, hi) == UNION {[1..n -> chars] : n \in lo..hi}

Patterns == StringsOver(PatChars, 1, MaxPatLen)
PatternLists ==
    {<<>>} \cup {<<p>> : p \in Patterns}
           \cup {<<p, q>> : p \in StringsOver(PatChars, 1, 1), q \in StringsOver(PatChars, 1, 1)}
TestPaths == StringsOver(PathChars, 0, MaxPathLen)

P_other == <<"a", "_">>

InitFilter ==
    /\ fs = <<>>
    /\ stack = <<>>
    /\ pc = "idle"
    /\ adds = 0
    /\ left = <<>>
    /\ committed = <<>>
    /\ schema = TRUE
    /\ path \in TestPaths
    /\ filter \in {NewFilter(i, x) : i \in PatternLists, x \in PatternLists}
    /\ rows = <<Entry(path, SizeOf(1), Md5(1)), Entry(P_other, SizeOf(2), Md5(2))>>
    /\ op = "new"
    /\ result = <<>>

Test ==
    /\ op' = "test"
    /\ result' = FilterTest(filter, path)
    /\ UNCHANGED <<fs, filter, stack, pc, adds, committed, rows, schema, left, path>>

UniqueHashesOp ==
    /\ op' = "unique_hashes"
    /\ result' = UniqueHashes(rows, filter)
    /\ UNCHANGED <<fs, filter, stack, pc, adds, committed, rows, schema, left, path>>

NextFilter == Test \/ UniqueHashesOp

SpecFilter == InitFilter /\ [][NextFilter]_vars

(***************************************************************************)
(* The differ specifications: eval_missing on two small entry tables under *)
(* a few filters (SpecMissing), and on these and on bulk tables around the *)
(* threshold (SpecThreshold).                                              *)
(***************************************************************************)
P_Ay == <<"A", "/", "y">>

SmallEntries ==
    {Entry(p, SizeOf(c), Md5(c)) : p \in {P_ay, P_Ay, P_cx}, c \in StoreContents}
SmallStores == UNION {[1..n -> SmallEntries] : n \in 0..MaxSmall}

\* n files f0001, f0002, ... of pairwise different content
Bulk(n) == [i \in 1..n |-> Entry(<<"f">> \o Hex(i, DigestLen), SizeOf(i), Md5(i))]

NoFilter == NewFilter(<<>>, <<>>)
FewFilters ==
    {NoFilter,
     NewFilter(<<<<"a", "*">>>>, <<>>),
     NewFilter(<<>>, <<<<"a", "*">>>>),
     NewFilter(<<<<"?", "/", "y">>, <<"c", "*">>>>, <<<<"A", "*">>>>)}

InitSmall ==
    /\ left \in SmallStores
    /\ rows \in SmallStores
    /\ filter \in FewFilters

InitBulk ==
    /\ left \in {<<>>, Bulk(1)}
    /\ rows \in {Bulk(Threshold), Bulk(Threshold + 1)}
    /\ filter \in {NoFilter, NewFilter(<<>>, <<Bulk(1)[1].filePath>>)}

InitDiffer ==
    /\ fs = <<>>
    /\ stack = <<>>
    /\ pc = "idle"
    /\ adds = 0
    /\ path = <<>>
    /\ committed = <<>>
    /\ schema = TRUE
    /\ op = "new"
    /\ result = <<>>

InitMissing == InitDiffer /\ InitSmall

InitThreshold == InitDiffer /\ (InitSmall \/ InitBulk)

EvalMissingOp ==
    /\ op = "new"
    /\ op' = "missing"
    /\ result' = EvalMissing(left, rows, filter)
    /\ UNCHANGED <<fs, filter, stack, pc, adds, committed, rows, schema, left, path>>

NextMissing == EvalMissingOp

SpecMissing == InitMissing /\ [][NextMissing]_vars

SpecThreshold == InitThreshold /\ [][NextMissing]_vars

(***************************************************************************)
(* The build specification: the index command (__main__.py) on a small     *)
(* tree.  The root is "r"; entry.path of a scanned entry is its path from   *)
(* the working directory, "r/...".                                         *)
(***************************************************************************)
ROOT == <<"r">>
N_db == <<"r", "/", "f", "i", "l", "e", "b", "u", "l", "k", "-", "i", "n", "d", "e", "x", ".", "d", "b">>
N_x == <<"r", "/", "x">>
N_a == <<"r", "/", "a">>
N_ax == <<"r", "/", "a", "/", "x">>
N_ab == <<"r", "/", "a", "/", "b">>
N_aby == <<"r", "/", "a", "/", "b", "/", "y">>

Nodes == {N_db, N_x, N_a, N_ax, N_ab, N_aby}

Absent == [kind |-> "absent", readable |-> FALSE]
Dir == [kind |-> "dir", readable |-> TRUE]
Other == [kind |-> "other", readable |-> FALSE]
Files == {[kind |-> "file", readable |-> r] : r \in BOOLEAN}

\* the trees: the index file is in the root (Index.new has created it), and
\* only a directory has entries
Trees ==
    {t \in [Nodes -> Files \cup {Absent, Dir, Other}] :
        /\ t[N_db].kind = "file"
        /\ t[N_x].kind # "dir"
        /\ t[N_ax].kind \in {"file", "absent"}
        /\ t[N_aby].kind \in {"file", "absent"}
        /\ t[N_a].kind # "other"
        /\ t[N_a].kind # "dir" => (t[N_ax] = Absent /\ t[N_ab] = Absent)
        /\ t[N_ab].kind # "dir" => t[N_aby] = Absent}

\* the content of the file at a node
Content(n) ==
    CASE n = N_db -> 0
      [] n = N_x -> 2
      [] n = N_a -> 2
      [] OTHER -> 1

BuildFilters ==
    {NoFilter,
     NewFilter(<<<<"r", "/", "a", "*">>>>, <<>>),
     NewFilter(<<>>, <<<<"*", "/", "b">>>>),
     NewFilter(<<<<"*", "x">>, <<"*", "y">>>>, <<>>),
     NewFilter(<<>>, <<<<"*", ".", "d", "b">>>>),
     NewFilter(<<<<"r", "/", "a", "*">>>>, <<<<"*", "/", "?">>, <<"*", "x">>>>)}

OldEntry == Entry(<<"o", "l", "d">>, SizeOf(1), Md5(1))

\* os.scandir(d): the entries of directory d
Children(d) == {n \in Nodes : Dirname(n) = d /\ fs[n].kind # "absent"}

\* os.path.relpath(p, root) for a path p below root
RelPath(p, root) == SubSeq(p, Len(root) + 2, Len(p))

\* Index.entry_for_path
EntryForPath(p) == Entry(RelPath(p, ROOT), SizeOf(Content(p)), Md5(Content(p)))

\* a variant of ScanAccepts that tests the filter on files only
ScanAcceptsFilesOnly(f, e) == fs[e].kind = "dir" \/ FilterTest(f, e)

\* "if not filter.test(entry.path): continue", before the kind is looked at
ScanAccepts(f, e) == FilterTest(f, e)

\* a variant of ConnExit that commits whether or not the scope raised
ConnExitCommit(raised, pending, durable) == pending

\* Index.__exit__ -> sqlite3.Connection.__exit__: commit, or roll back when
\* the scope raised; the table as stored afterwards
ConnExit(raised, pending, durable) == IF raised THEN durable ELSE pending

\* return from every index_dir call whose entries are all visited
RECURSIVE Return(_)
Return(st) ==
    IF st # <<>> /\ st[Len(st)] = {} THEN Return(SubSeq(st, 1, Len(st) - 1)) ELSE st

\* the stack once entry e of the innermost directory is dealt with
Visited(e) == [stack EXCEPT ![Len(stack)] = @ \ {e}]

InitBuild ==
    /\ fs \in Trees
    /\ filter \in BuildFilters
    /\ stack = <<>>
    /\ pc = "idle"
    /\ adds = 0
    /\ committed \in {<<>>, <<OldEntry>>}
    /\ rows = committed
    /\ schema = (committed # <<>>)
    /\ left = <<>>
    /\ path = <<>>
    /\ op = "new"
    /\ result = <<>>

\* os.remove(index_file), Index.new (the DDL is committed at once), __enter__,
\* and index_dir(root) up to its scandir
BuildStart ==
    /\ pc = "idle"
    /\ pc' = "scanning"
    /\ schema' = TRUE
    /\ committed' = <<>>
    /\ rows' = <<>>
    /\ adds' = 0
    /\ stack' = Return(<<Children(ROOT)>>)
    /\ UNCHANGED <<fs, filter, left, path, op, result>>

Scanning(e) ==
    /\ pc = "scanning"
    /\ stack # <<>>
    /\ e \in stack[Len(stack)]

VisitRejected(e) ==
    /\ Scanning(e)
    /\ ~ScanAccepts(filter, e)
    /\ stack' = Return(Visited(e))
    /\ UNCHANGED <<fs, filter, pc, adds, committed, rows, schema, left, path, op, result>>

VisitFile(e) ==
    /\ Scanning(e)
    /\ ScanAccepts(filter, e)
    /\ fs[e].kind = "file"
    /\ fs[e].readable
    /\ rows' = IndexAdd(rows, EntryForPath(e))
    /\ adds' = adds + 1
    /\ stack' = Return(Visited(e))
    /\ UNCHANGED <<fs, filter, pc, committed, schema, left, path, op, result>>

\* open() raises: the exception leaves every index_dir call and the with scope
VisitUnreadable(e) ==
    /\ Scanning(e)
    /\ ScanAccepts(filter, e)
    /\ fs[e].kind = "file"
    /\ ~fs[e].readable
    /\ pc' = "failed"
    /\ stack' = <<>>
    /\ committed' = ConnExit(TRUE, rows, committed)
    /\ rows' = committed'
    /\ UNCHANGED <<fs, filter, adds, schema, left, path, op, result>>

VisitDir(e) ==
    /\ Scanning(e)
    /\ ScanAccepts(filter, e)
    /\ fs[e].kind = "dir"
    /\ stack' = Return(Append(Visited(e), Children(e)))
    /\ UNCHANGED <<fs, filter, pc, adds, committed, rows, schema, left, path, op, result>>

VisitOther(e) ==
    /\ Scanning(e)
    /\ ScanAccepts(filter, e)
    /\ fs[e].kind = "other"
    /\ stack' = Return(Visited(e))
    /\ UNCHANGED <<fs, filter, pc, adds, committed, rows, schema, left, path, op, result>>

\* index_dir(root) has returned: the with scope exits normally
ExitScope ==
    /\ pc = "scanning"
    /\ stack = <<>>
    /\ pc' = "done"
    /\ committed' = ConnExit(FALSE, rows, committed)
    /\ rows' = committed'
    /\ UNCHANGED <<fs, filter, stack, adds, schema, left, path, op, result>>

NextBuild ==
    \/ BuildStart
    \/ \E e \in Nodes : VisitRejected(e)
    \/ \E e \in Nodes : VisitFile(e)
    \/ \E e \in Nodes : VisitUnreadable(e)
    \/ \E e \in Nodes : VisitDir(e)
    \/ \E e \in Nodes : VisitOther(e)
    \/ ExitScope

SpecBuild == InitBuild /\ [][NextBuild]_vars

(***************************************************************************)
(* Claims about the store specification.                                   *)
(***************************************************************************)
\* C2: Index.duplicates() returns exactly the digests carried by at least two
\* stored entries, each mapped to the filePaths of all stored entries with
\* that digest, one list element per entry; no group has fewer than 2 members.
C2_DuplicatesGrouping ==
    op = "duplicates" =>
        /\ DOMAIN result =
               {h \in StoreHashes : Count(rows, LAMBDA e : e.md5Hash = h) >= 2}
        /\ \A h \in DOMAIN result :
               /\ Len(result[h]) >= 2
               /\ Len(result[h]) = Count(rows, LAMBDA e : e.md5Hash = h)
               /\ \A p \in StorePaths :
                      Occurrences(result[h], p) =
                          Count(rows, LAMBDA e : e.md5Hash = h /\ e.filePath = p)

\* a digest stored three times, once with a repeated path, beside a group-less state
C2_Witness ==
    /\ op = "duplicates"
    /\ Len(rows) = 3
    /\ \E h \in DOMAIN result : Len(result[h]) = 2 /\ result[h][1] # result[h][2]

\* C3: Index.duplicate_entries() returns the same grouping as
\* Index.duplicates(): the same key set (the digests with at least two
\* entries) and, per key, Entries with exactly the filePaths duplicates()
\* lists, each carrying its stored fileSize and md5Hash.
C3_SameGrouping ==
    op = "duplicate_entries" =>
        LET d == IndexDuplicates(rows)
        IN  /\ DOMAIN result = DOMAIN d
            /\ \A h \in DOMAIN d :
                   /\ Len(result[h]) = Len(d[h])
                   /\ \A i \in DOMAIN d[h] :
                          /\ result[h][i].filePath = d[h][i]
                          /\ result[h][i].md5Hash = h
                          /\ result[h][i] \in {rows[j] : j \in DOMAIN rows}

\* the composite hash eval_dir_dups computed for directory p
CompositeHash(t, p) == DictGet(DirHashes(t), p)

\* the directories eval_dir_dups reports, over all groups
Reported == UNION {{result[k][i] : i \in DOMAIN result[k]} : k \in DOMAIN result}

\* C8: a directory whose immediate parent has the same composite hash never
\* appears in a group of eval_dir_dups' result, so of a parent and a child
\* with one composite hash at most the parent is reported.
C8_ParentPruning ==
    op = "dirdups" =>
        \A D \in Reported :
            Dirname(D) # <<>> =>
                CompositeHash(rows, Dirname(D)) # CompositeHash(rows, D)

\* a reported parent whose only child has the same composite hash and is not reported
C8_Witness ==
    /\ op = "dirdups"
    /\ \E P \in Reported :
           \E i \in DOMAIN DirHashes(rows) :
               LET C == DirHashes(rows)[i]
               IN  /\ Dirname(C.dir) = P
                   /\ C.hash = CompositeHash(rows, P)
                   /\ C.dir \notin Reported

\* the directories that survive parent-pruning, in the dict's insertion order
Survivors(t) == PruneDirs(DirHashes(t))

GroupsOfSurvivors ==
    LET sv == Survivors(rows)
    IN  /\ DOMAIN result =
               {h \in {sv[i].hash : i \in DOMAIN sv} :
                   Cardinality({i \in DOMAIN sv : sv[i].hash = h}) > 1}
        /\ \A h \in DOMAIN result :
               /\ Len(result[h]) > 1
               /\ {result[h][i] : i \in DOMAIN result[h]} =
                      {sv[i].dir : i \in {j \in DOMAIN sv : sv[j].hash = h}}
               /\ Len(result[h]) = Cardinality({j \in DOMAIN sv : sv[j].hash = h})

\* C9 as stated: eval_dir_dups returns exactly the groups of more than one
\* surviving directory, and each group's member list is sorted by path.
C9_SortedGroups ==
    op = "dirdups" =>
        /\ GroupsOfSurvivors
        /\ \A h \in DOMAIN result :
               \A i, j \in DOMAIN result[h] :
                   i < j => StrLeq(result[h][i], result[h][j])

\* C9 as amended: eval_dir_dups returns exactly the groups of more than one
\* surviving directory, and each group's member list is in the order in which
\* its directories were first fed by the index entries in storage order.
C9_InsertionOrderGroups ==
    op = "dirdups" =>
        /\ GroupsOfSurvivors
        /\ \A h \in DOMAIN result :
               LET sv == Survivors(rows)
                   sel == SelectSeq(sv, LAMBDA x : x.hash = h)
               IN  result[h] = [i \in DOMAIN sel |-> sel[i].dir]

\* a group of two directories beside a surviving directory that is in no group
C9_Witness ==
    /\ op = "dirdups"
    /\ \E h \in DOMAIN result : Len(result[h]) = 2
    /\ \E i \in DOMAIN Survivors(rows) : Survivors(rows)[i].hash \notin DOMAIN result

(***************************************************************************)
(* Claims about the differ specification.                                  *)
(***************************************************************************)
MissingSet == UniqueHashes(rows, filter) \ UniqueHashes(left, filter)

\* C4: when eval_missing returns a mapping, its key set is exactly
\* unique_hashes(right, filter) minus unique_hashes(left, filter), and each
\* key maps to all filePaths stored in right with that hash.
C4_MissingMapping ==
    (op = "missing" /\ result.error = "") =>
        /\ DOMAIN result.value = MissingSet
        /\ \A h \in DOMAIN result.value :
               LET ps == result.value[h]
                   js == {j \in DOMAIN rows : rows[j].md5Hash = h}
               IN  /\ h \in UniqueHashes(rows, filter)
                   /\ h \notin UniqueHashes(left, filter)
                   /\ Len(ps) = Cardinality(js)
                   /\ \A j \in js : Occurrences(ps, rows[j].filePath) =
                          Cardinality({k \in js : rows[k].filePath = rows[j].filePath})

\* a filtered comparison whose result lists for one missing hash two paths,
\* one of them a path the filter does not select, while the left index holds
\* that hash at a path the filter does not select
C4_Witness ==
    /\ op = "missing"
    /\ result.error = ""
    /\ filter # NoFilter
    /\ \E h \in DOMAIN result.value :
           /\ Len(result.value[h]) = 2
           /\ \E i \in DOMAIN result.value[h] : ~FilterSql(filter, result.value[h][i])
           /\ \E i \in DOMAIN left : left[i].md5Hash = h

\* C5: eval_missing fails, returning no mapping and having looked up no
\* path, exactly when the missing set holds more than 5000 hashes; with 5000
\* or fewer it returns the full mapping.
C5_ThresholdGuard ==
    op = "missing" =>
        /\ (result.error # "") <=> (Cardinality(MissingSet) > Threshold)
        /\ result.error # "" => (result.value = <<>> /\ result.lookups = 0)
        /\ result.error = "" =>
               (DOMAIN result.value = MissingSet /\ result.lookups = Cardinality(MissingSet))

\* 5001 missing hashes: the evaluation has failed
C5_Witness ==
    /\ op = "missing"
    /\ Cardinality(MissingSet) = Threshold + 1
    /\ result.error = "RuntimeError"

(***************************************************************************)
(* Claims about the filter specification.                                  *)
(***************************************************************************)
MatchesExclude == \E i \in DOMAIN filter.excludes : GlobMatch(filter.excludes[i], path)
MatchesInclude == \E i \in DOMAIN filter.includes : GlobMatch(filter.includes[i], path)

\* C6: Filter.test(path) is falsy if the path matches any exclude pattern,
\* even when it also matches an include pattern; otherwise it is truthy iff
\* the include list is empty or the path matches an include pattern.
C6_FilterSemantics ==
    op = "test" =>
        /\ MatchesExclude => result = FALSE
        /\ ~MatchesExclude => (result = TRUE <=> (filter.includes = <<>> \/ MatchesInclude))

\* a path that matches an include and an exclude pattern has been rejected
C6_Witness ==
    /\ op = "test"
    /\ MatchesExclude
    /\ MatchesInclude
    /\ result = FALSE

\* C7: Index.unique_hashes(filter) returns exactly the digests of the stored
\* entries whose filePath Filter.test accepts.
C7_SqlAgreesWithTest ==
    op = "unique_hashes" =>
        result = {rows[i].md5Hash : i \in {j \in DOMAIN rows : FilterTest(filter, rows[j].filePath)}}

(***************************************************************************)
(* Claims about the build specification.                                   *)
(***************************************************************************)
\* C1: a build session is all-or-nothing: nothing is stored before the scope
\* exits; when the walk completes every added Entry is stored; when the walk
\* raises after any number of adds no Entry is stored, and the table and the
\* hash index created by Index.new exist.
C1_AllOrNothing ==
    /\ pc = "scanning" => (schema /\ committed = <<>> /\ Len(rows) = adds)
    /\ pc = "done" => (schema /\ Len(committed) = adds /\ committed = rows)
    /\ pc = "failed" => (schema /\ committed = <<>>)

\* the walk raised after two adds
C1_Witness == pc = "failed" /\ adds = 2 /\ committed = <<>>

\* the filter accepts entry n and every directory between the root and n
RECURSIVE ChainAccepted(_)
ChainAccepted(n) ==
    /\ FilterTest(filter, n)
    /\ Dirname(n) # ROOT => ChainAccepted(Dirname(n))

Indexable(n) == fs[n].kind = "file" /\ ChainAccepted(n)

\* C10: a rejected entry is skipped and a rejected directory is not
\* descended into: the store never holds an Entry of a file that is rejected
\* or lies under a rejected directory, and after the build it holds exactly
\* one Entry for every accepted file whose directories were all accepted.
C10_FilterPrunesScan ==
    /\ pc \in {"scanning", "done"} =>
           \A n \in Nodes :
               Count(rows, LAMBDA e : e.filePath = RelPath(n, ROOT)) <=
                   (IF Indexable(n) THEN 1 ELSE 0)
    /\ pc = "done" =>
           /\ \A n \in Nodes :
                  Count(committed, LAMBDA e : e.filePath = RelPath(n, ROOT)) =
                      (IF Indexable(n) THEN 1 ELSE 0)
           /\ \A i \in DOMAIN committed :
                  \E n \in Nodes : committed[i] = EntryForPath(n)

\* a finished build that stored an Entry and skipped a file which the filter
\* accepts but whose directory it rejects
C10_Witness ==
    /\ pc = "done"
    /\ committed # <<>>
    /\ \E n \in Nodes :
           /\ fs[n].kind = "file"
           /\ FilterTest(filter, n)
           /\ ~ChainAccepted(n)
           /\ \A i \in DOMAIN committed : committed[i].filePath # RelPath(n, ROOT)

=============================================================================
